---- MODULE Spec2Model ----
(***************************************************************************)
(* Cross-context data-change notification: the SyncService transport       *)
(* (services/syncService.ts), and the useSyncedData hook                   *)
(* (hooks/useSyncedData.ts) that re-fetches when a watched key changes.    *)
(*                                                                         *)
(* Every handler of the source is an operator over a "world" record W that *)
(* holds the state a synchronous handler can change.  An action of the     *)
(* model is one task of the event loop: an API call, a timer firing, an    *)
(* event delivered, a promise settling.  It runs its handlers to           *)
(* completion and commits the resulting world.                             *)
(***************************************************************************)
EXTENDS Integers, Sequences, FiniteSets, TLC

VARIABLES
    isStarted,           \* SyncService.isStarted, per transport
    channel,             \* SyncService.channel is non-null
    listeners,           \* SyncService.listeners: key -> callbacks in insertion order
    refreshInterval,     \* SyncService.refreshInterval is non-null
    lastSyncTime,        \* SyncService.lastSyncTime
    storageListener,     \* SyncService.storageListener is non-null
    customEventListener, \* SyncService.customEventListener is non-null
    timers,              \* interval timers of the transport that are still running
    winStorage,          \* 'storage' listeners of the transport installed on its window
    winCustom,           \* 'storage-update' listeners of the transport installed on its window
    chanOpen,            \* BroadcastChannel objects of the transport that are open
    inbox,               \* channel messages posted to the transport, not yet delivered
    now,                 \* Date.now()
    sameWindow,          \* whether the two transports live in one window
    fresh,               \* revocation handles never called yet, as <<transport, key, callback>>
    used,                \* revocation handles called at least once
    nSubs,               \* number of subscribe calls made by plain callers
    watchKeys,           \* useSyncedData: the watchKeys argument of the last render
    effKeys,             \* useSyncedData: the watchKeys the running effect subscribed
    accT,                \* useSyncedData: syncTransport of the running effect
    accActive,           \* useSyncedData: the activation whose isMounted is true (0: none)
    accNull,             \* useSyncedData: data === null as captured by the running effect
    nAct,                \* number of activations (effect runs) so far
    data,                \* useSyncedData: data (0 is null)
    loading,             \* useSyncedData: loading
    trigger,             \* useSyncedData: trigger
    inflight,            \* pending fetcher() promises, by the activation that awaits each
    overtaken,           \* for each pending promise: a promise that the same activation
                         \* created later has resolved already
    facade,              \* each SyncProvider: its effect is active, isSyncing, lastSyncTime,
                         \* the setTimeout callbacks still pending, whether a signal was handled
    gone,                \* callbacks a stop() cleared from the registry, not subscribed since
    step                 \* the last task: the call, the dispatch passes it ran, the signals it
                         \* emitted, whether the promise it settled had been overtaken,
                         \* whether it is stuck in a dispatch pass that never ends

vars == <<isStarted, channel, listeners, refreshInterval, lastSyncTime, storageListener,
          customEventListener, timers, winStorage, winCustom, chanOpen, inbox, now,
          sameWindow, fresh, used, nSubs, watchKeys, effKeys, accT, accActive, accNull,
          nAct, data, loading, trigger, inflight, overtaken, facade, gone, step>>

transportVars == <<isStarted, channel, refreshInterval, storageListener, customEventListener,
                   timers, winStorage, winCustom, chanOpen>>
handleVars == <<fresh, used, nSubs>>
hookVars == <<watchKeys, effKeys, accT, accActive, accNull, nAct, data, trigger>>

----
\* Bounds of the model.
MaxSubs == 2
MaxQueue == 1
MaxClock == 1
MaxAct == 2
MaxInflight == 2
MaxTime == 2
MaxTimeouts == 4

\* The two transport instances, in the order their window listeners were installed.
T == <<"A", "B">>
TS == {"A", "B"}
\* Watch keys: two ordinary keys, the wildcard, and the empty string, which the
\* code's truthiness tests treat like a missing key.
Wild == "*"
NoKey == ""
Keys == {"a", "b", Wild, NoKey}
SubKeys == {"a", "b", Wild}
\* Plain callbacks of callers other than the hook; the hook's are <<"doFetch", activation>>.
CB == {<<"cb", 1>>, <<"cb", 2>>}
\* Callbacks that change the registry when called: <<"adder", n>> subscribes <<"cb", n>>
\* under ReKey, <<"remover", n>> calls the revocation handle of <<"cb", n>> under ReKey.
ReKey == "a"
ReCB == {<<"adder", 1>>, <<"remover", 1>>}
\* A callback that calls its own revocation handle and subscribes itself again under ReKey.
AgainCB == {<<"again", 1>>}
Results == {1, 2}
WatchSets == {<<"a">>, <<Wild>>, <<"a", Wild>>, <<>>, <<NoKey>>}

\* The SyncProviders of window 1, which all wrap transport A; the setTimeout delay of
\* 1000 ms is two steps of the clock.
Provs == {1, 2}
ProvT == "A"
Window == 2

Win(t) == IF sameWindow \/ t = "A" THEN 1 ELSE 2
EmptyMap == [k \in {} |-> <<>>]
NoCb == <<"cb", 0>>
NoFacade == [active |-> FALSE, isSyncing |-> FALSE, lastSyncTime |-> 0, timeouts |-> <<>>,
             signalled |-> FALSE]
NoStep == [op |-> "init", t |-> "A", key |-> NoKey, cb |-> NoCb,
           ret |-> 0, passes |-> <<>>, signals |-> 0, stale |-> FALSE, hung |-> FALSE]

----
\* Map and Set of the listener registry.
Has(m, k) == k \in DOMAIN m
MapSet(m, k, v) == [x \in DOMAIN m \cup {k} |-> IF x = k THEN v ELSE m[x]]
MapDelete(m, k) == [x \in DOMAIN m \ {k} |-> m[x]]
InSeq(s, x) == \E i \in 1..Len(s) : s[i] = x
SetAdd(s, x) == IF InSeq(s, x) THEN s ELSE Append(s, x)
SetDelete(s, x) == SelectSeq(s, LAMBDA y : y # x)
Count(s, x) == Cardinality({i \in 1..Len(s) : s[i] = x})

\* The callbacks registered under a key, and under any key.
Bucket(L, k) == IF Has(L, k) THEN L[k] ELSE <<>>
Registered(L) == UNION {{L[k][i] : i \in 1..Len(L[k])} : k \in DOMAIN L}

\* The state a synchronous handler can change, with what the task has done so far: its
\* dispatch passes, its signals, the changes the running callback made to the registry,
\* and whether a dispatch pass of the task can never end.
World == [listeners |-> listeners, lastSyncTime |-> lastSyncTime, inbox |-> inbox,
          inflight |-> inflight, loading |-> loading, active |-> accActive,
          accNull |-> accNull, facade |-> facade, passes |-> <<>>, signals |-> 0,
          edits |-> <<>>, hung |-> FALSE]

----
\* useSyncedData.doFetch up to its await: the guard on isMounted, setLoading(true) when
\* the captured data is null, and the call of fetcher(), whose promise stays pending.
DoFetch(W, i) ==
    IF W.active # i THEN W
    ELSE [W EXCEPT !.loading = IF W.accNull THEN TRUE ELSE @,
                   !.inflight = Append(@, i)]

\* The registration part of SyncService.subscribe.
SubscribeIn(L, key, callback) ==
    LET L1 == IF ~Has(L, key) THEN MapSet(L, key, <<>>) ELSE L
    IN  MapSet(L1, key, SetAdd(L1[key], callback))

\* The revocation closure without the listeners.delete(key) of lines 133-135.
RevokeInKeepsBucket(L, key, callback) ==
    IF Has(L, key) THEN MapSet(L, key, SetDelete(L[key], callback)) ELSE L

\* The revocation closure returned by SyncService.subscribe.
RevokeIn(L, key, callback) ==
    IF Has(L, key)
    THEN LET keyListeners == SetDelete(L[key], callback)
         IN  IF Len(keyListeners) = 0 THEN MapDelete(L, key)
             ELSE MapSet(L, key, keyListeners)
    ELSE L

\* One callback() call of a dispatch pass: the pass records it, then the callback runs.
\* A callback is the hook's doFetch, a caller's function that touches nothing of the
\* transport, or a caller's function that subscribes or revokes: <<"adder", n>> and
\* <<"remover", n>> do it to <<"cb", n>>, <<"again", n>> calls its own revocation handle
\* and subscribes itself again.
Invoke(W, t, cb) ==
    LET n == Len(W.passes)
        W1 == [W EXCEPT !.passes[n].fired = Append(@, cb), !.edits = <<>>]
        add(c) == [op |-> "add", key |-> ReKey, cb |-> c]
        delete(c) == [op |-> "delete", key |-> ReKey, cb |-> c]
    IN  CASE cb[1] = "doFetch" -> DoFetch(W1, cb[2])
          [] cb[1] = "adder" ->
                [W1 EXCEPT !.listeners[t] = SubscribeIn(@, ReKey, <<"cb", cb[2]>>),
                           !.edits = <<add(<<"cb", cb[2]>>)>>]
          [] cb[1] = "remover" ->
                [W1 EXCEPT !.listeners[t] = RevokeIn(@, ReKey, <<"cb", cb[2]>>),
                           !.edits = <<delete(<<"cb", cb[2]>>)>>]
          [] cb[1] = "again" ->
                [W1 EXCEPT !.listeners[t] = SubscribeIn(RevokeIn(@, ReKey, cb), ReKey, cb),
                           !.edits = <<delete(cb), add(cb)>>]
          [] OTHER -> W1

\* The Set a dispatch pass walks, as the language keeps it while forEach runs: the list
\* of its entries in insertion order, where delete leaves an empty entry behind and
\* add appends an entry.  The revocation closure takes a Set that became empty out of
\* the registry (lines 133-135): a later subscribe makes a new Set, and the one the pass
\* walks is detached.
Tomb == <<"tomb", 0>>
Live(E) == SelectSeq(E, LAMBDA x : x # Tomb)

SetEdit(R, e) ==
    IF R.detached THEN R
    ELSE IF e.op = "add" THEN [R EXCEPT !.E = SetAdd(@, e.cb)]
    ELSE LET E1 == [k \in 1..Len(R.E) |-> IF R.E[k] = e.cb THEN Tomb ELSE R.E[k]]
         IN  [E |-> E1, detached |-> Live(E1) = <<>>]

RECURSIVE SetEdits(_, _, _)
SetEdits(R, es, key) ==
    IF es = <<>> THEN R
    ELSE SetEdits(IF Head(es).key = key THEN SetEdit(R, Head(es)) ELSE R, Tail(es), key)

\* Set.prototype.forEach from entry i on: an empty entry is skipped, an entry appended
\* by a callback is visited in its turn.  What is left of the walk depends on the
\* registry and on the entries not yet visited: when a callback leaves both as they
\* were after an earlier call of the same walk, the walk never ends.
RECURSIVE Walk(_, _, _, _, _, _)

\* The walk goes on after the callback of entry i returned and the Set took its changes.
Onward(W, t, key, R, i, seen) ==
    LET left == <<W.listeners[t], Live(SubSeq(R.E, i + 1, Len(R.E))), R.detached>>
    IN  IF left \in seen THEN [W EXCEPT !.hung = TRUE]
        ELSE Walk(W, t, key, R, i + 1, seen \cup {left})

\* The callback of entry i returned: the Set takes the changes the callback made.
Called(W, t, key, R, i, seen) ==
    Onward(W, t, key, SetEdits(R, W.edits, key), i, seen)

Walk(W, t, key, R, i, seen) ==
    IF W.hung \/ i > Len(R.E) THEN W
    ELSE IF R.E[i] = Tomb THEN Walk(W, t, key, R, i + 1, seen)
    ELSE Called(Invoke(W, t, R.E[i]), t, key, R, i, seen)

\* keyListeners.forEach(callback => callback()) over the Set registered under a key.
ForEach(W, t, key, i) ==
    Walk(W, t, key, [E |-> Bucket(W.listeners[t], key), detached |-> FALSE], i, {})

\* SyncService.notifyListeners without the pass over the wildcard bucket.
NotifyListenersKeyOnly(W, t, key) ==
    LET W0 == [W EXCEPT !.passes = Append(@, [t |-> t, key |-> key, fired |-> <<>>])]
    IN  ForEach(W0, t, key, 1)

\* SyncService.notifyListeners going on to the callbacks of the ordinary keys.
NotifyListenersAllKeys(W, t, key) ==
    LET W0 == [W EXCEPT !.passes = Append(@, [t |-> t, key |-> key, fired |-> <<>>])]
        W1 == ForEach(W0, t, key, 1)
        W2 == IF Has(W1.listeners[t], Wild) /\ key # Wild THEN ForEach(W1, t, Wild, 1) ELSE W1
        W3 == IF key # "a" THEN ForEach(W2, t, "a", 1) ELSE W2
    IN  IF key # "b" THEN ForEach(W3, t, "b", 1) ELSE W3

\* SyncService.notifyListeners with the wildcard bucket first.
NotifyListenersWildFirst(W, t, key) ==
    LET W0 == [W EXCEPT !.passes = Append(@, [t |-> t, key |-> key, fired |-> <<>>])]
        W1 == IF Has(W0.listeners[t], Wild) /\ key # Wild THEN ForEach(W0, t, Wild, 1) ELSE W0
    IN  ForEach(W1, t, key, 1)

\* SyncService.notifyListeners
NotifyListeners(W, t, key) ==
    LET W0 == [W EXCEPT !.passes = Append(@, [t |-> t, key |-> key, fired |-> <<>>])]
        W1 == ForEach(W0, t, key, 1)
    IN  IF Has(W1.listeners[t], Wild) /\ key # Wild THEN ForEach(W1, t, Wild, 1) ELSE W1

\* SyncProvider.handleSyncTimeUpdate: setLastSyncTime, setIsSyncing(true), and a
\* setTimeout that is due 1000 ms from now.
HandleSyncTimeUpdate(F, timestamp) ==
    [F EXCEPT !.lastSyncTime = timestamp, !.isSyncing = TRUE,
              !.timeouts = Append(@, now + Window), !.signalled = TRUE]

\* window.dispatchEvent(new CustomEvent('sync-time-update', ...)) by transport t: the
\* listener of every provider that has installed it on that window handles it.
DispatchSyncTime(W, t) ==
    [W EXCEPT !.signals = @ + 1,
              !.facade = [p \in Provs |->
                             IF @[p].active /\ Win(t) = Win(ProvT)
                             THEN HandleSyncTimeUpdate(@[p], W.lastSyncTime[t]) ELSE @[p]]]

\* SyncService.updateSyncTime: the timestamp, and the 'sync-time-update' window event.
\* It is not reached when a dispatch pass before it never ends.
UpdateSyncTime(W, t) ==
    IF W.hung THEN W ELSE DispatchSyncTime([W EXCEPT !.lastSyncTime[t] = now], t)

\* SyncService.handleSyncMessage taking the message's timestamp for the sync time.
HandleSyncMessageMsgTime(W, t, message) ==
    LET W1 == DispatchSyncTime([W EXCEPT !.lastSyncTime[t] = message.timestamp], t)
    IN  CASE message.type = "storage-update" ->
                IF message.key # NoKey THEN NotifyListeners(W1, t, message.key) ELSE W1
          [] message.type = "data-refresh" -> NotifyListeners(W1, t, Wild)
          [] message.type = "force-sync" ->
                IF message.key # NoKey THEN NotifyListeners(W1, t, message.key)
                ELSE NotifyListeners(W1, t, Wild)
          [] OTHER -> W1

\* SyncService.handleSyncMessage without the else branch of lines 91-93.
HandleSyncMessageNoElse(W, t, message) ==
    LET W1 == UpdateSyncTime(W, t)
    IN  CASE message.type = "storage-update" ->
                IF message.key # NoKey THEN NotifyListeners(W1, t, message.key) ELSE W1
          [] message.type = "data-refresh" -> NotifyListeners(W1, t, Wild)
          [] message.type = "force-sync" ->
                IF message.key # NoKey THEN NotifyListeners(W1, t, message.key) ELSE W1
          [] OTHER -> W1

\* SyncService.handleSyncMessage
HandleSyncMessage(W, t, message) ==
    LET W1 == UpdateSyncTime(W, t)
    IN  CASE message.type = "storage-update" ->
                IF message.key # NoKey THEN NotifyListeners(W1, t, message.key) ELSE W1
          [] message.type = "data-refresh" -> NotifyListeners(W1, t, Wild)
          [] message.type = "force-sync" ->
                IF message.key # NoKey THEN NotifyListeners(W1, t, message.key)
                ELSE NotifyListeners(W1, t, Wild)
          [] OTHER -> W1

\* The storageListener closure of setupStorageListener; key is e.key (NoKey: null or '').
StorageListener(W, t, key) ==
    IF key # NoKey THEN UpdateSyncTime(NotifyListeners(W, t, key), t) ELSE W

\* The customEventListener closure of setupStorageListener; a detail without a type
\* is given as type NoKey.
CustomEventListener(W, t, detail) ==
    IF detail.type # NoKey THEN HandleSyncMessage(W, t, detail)
    ELSE IF detail.key # NoKey THEN UpdateSyncTime(NotifyListeners(W, t, detail.key), t)
    ELSE W

\* The customEventListener of a transport, run once for every listener object of it
\* that is installed on the window (one, unless start() leaked some).
RECURSIVE CustomListeners(_, _, _, _)
CustomListeners(W, t, detail, n) ==
    IF n = 0 THEN W ELSE CustomListeners(CustomEventListener(W, t, detail), t, detail, n - 1)

RECURSIVE StorageListeners(_, _, _, _)
StorageListeners(W, t, key, n) ==
    IF n = 0 THEN W ELSE StorageListeners(StorageListener(W, t, key), t, key, n - 1)

\* channel.onmessage of initializeBroadcastChannel, once for every open channel object.
RECURSIVE OnMessage(_, _, _, _)
OnMessage(W, t, message, n) ==
    IF n = 0 THEN W ELSE OnMessage(HandleSyncMessage(W, t, message), t, message, n - 1)

\* window.dispatchEvent(new CustomEvent('storage-update', {detail})): every listener
\* installed on window w runs, in the order of installation.
RECURSIVE DispatchCustomEvent(_, _, _, _)
DispatchCustomEvent(W, w, detail, i) ==
    IF i > Len(T) THEN W
    ELSE LET u == T[i]
             W1 == IF Win(u) = w THEN CustomListeners(W, u, detail, winCustom[u]) ELSE W
         IN  DispatchCustomEvent(W1, w, detail, i + 1)

\* A 'storage' event in window w.
RECURSIVE DispatchStorageEvent(_, _, _, _)
DispatchStorageEvent(W, w, key, i) ==
    IF i > Len(T) THEN W
    ELSE LET u == T[i]
             W1 == IF Win(u) = w THEN StorageListeners(W, u, key, winStorage[u]) ELSE W
         IN  DispatchStorageEvent(W1, w, key, i + 1)

\* channel.postMessage that reaches no other channel.
PostMessageLost(W, t, message) == W

\* channel.postMessage: the message is queued for every other open channel of that name.
PostMessage(W, t, message) ==
    [W EXCEPT !.inbox = [u \in TS |-> IF u # t /\ chanOpen[u] > 0
                                      THEN Append(W.inbox[u], message) ELSE W.inbox[u]]]

\* SyncService.broadcast returning at once on a transport that is not started.
BroadcastStartedOnly(W, t, message) ==
    LET fullMessage == [type |-> message.type, key |-> message.key, timestamp |-> now]
        W1 == IF channel[t] THEN PostMessage(W, t, fullMessage) ELSE W
        W2 == DispatchCustomEvent(W1, Win(t), fullMessage, 1)
    IN  IF isStarted[t] THEN UpdateSyncTime(W2, t) ELSE W

\* SyncService.broadcast
Broadcast(W, t, message) ==
    LET fullMessage == [type |-> message.type, key |-> message.key, timestamp |-> now]
        W1 == IF channel[t] THEN PostMessage(W, t, fullMessage) ELSE W
        W2 == DispatchCustomEvent(W1, Win(t), fullMessage, 1)
    IN  UpdateSyncTime(W2, t)

----
\* The hook's effect (useSyncedData lines 27-56) for activation i: isMounted = true,
\* doFetch(), then one subscribe per element of watchKeys.
RECURSIVE SubscribeAll(_, _, _, _, _)
SubscribeAll(L, ks, callback, i, n) ==
    IF i > n THEN L ELSE SubscribeAll(SubscribeIn(L, ks[i], callback), ks, callback, i + 1, n)

Effect(W, t, ks, i, dataNull) ==
    LET W1 == DoFetch([W EXCEPT !.active = i, !.accNull = dataNull], i)
    IN  [W1 EXCEPT !.listeners[t] = SubscribeAll(@, ks, <<"doFetch", i>>, 1, Len(ks))]

\* The effect's cleanup that clears isMounted and calls no unsubscriber.
CleanupFlagOnly(W, t, ks, i) ==
    [W EXCEPT !.active = 0]

\* The effect's cleanup (lines 57-60): isMounted = false, then every unsubscriber.
RECURSIVE RevokeAll(_, _, _, _, _)
RevokeAll(L, ks, callback, i, n) ==
    IF i > n THEN L ELSE RevokeAll(RevokeIn(L, ks[i], callback), ks, callback, i + 1, n)

Cleanup(W, t, ks, i) ==
    [W EXCEPT !.active = 0,
              !.listeners[t] = RevokeAll(@, ks, <<"doFetch", i>>, 1, Len(ks))]

\* watchKeys.join(',')
RECURSIVE Join(_)
Join(ks) ==
    IF Len(ks) = 0 THEN ""
    ELSE IF Len(ks) = 1 THEN ks[1]
    ELSE ks[1] \o "," \o Join(Tail(ks))

\* doFetch after its await, with the isMounted tests left out.
SettledUnguarded(i, ok, result) ==
    [data |-> IF ok THEN result ELSE data, loading |-> FALSE]

\* doFetch after its await, with a catch block that resets data to null.
SettledRejectClears(i, ok, result) ==
    [data |-> IF accActive = i THEN (IF ok THEN result ELSE 0) ELSE data,
     loading |-> IF accActive = i THEN FALSE ELSE loading]

\* doFetch after its await, setting data only while it is null.
SettledFirstWins(i, ok, result) ==
    [data |-> IF ok /\ accActive = i /\ data = 0 THEN result ELSE data,
     loading |-> IF accActive = i THEN FALSE ELSE loading]

\* doFetch after its await (lines 37-47): what data and loading become when the
\* promise of activation i resolves with result (ok) or rejects.
Settled(i, ok, result) ==
    [data |-> IF ok /\ accActive = i THEN result ELSE data,
     loading |-> IF accActive = i THEN FALSE ELSE loading]

----
InitBase ==
    /\ isStarted = [t \in TS |-> FALSE]
    /\ channel = [t \in TS |-> FALSE]
    /\ listeners = [t \in TS |-> EmptyMap]
    /\ refreshInterval = [t \in TS |-> FALSE]
    /\ lastSyncTime = [t \in TS |-> 0]
    /\ storageListener = [t \in TS |-> FALSE]
    /\ customEventListener = [t \in TS |-> FALSE]
    /\ timers = [t \in TS |-> 0]
    /\ winStorage = [t \in TS |-> 0]
    /\ winCustom = [t \in TS |-> 0]
    /\ chanOpen = [t \in TS |-> 0]
    /\ inbox = [t \in TS |-> <<>>]
    /\ now = 0
    /\ fresh = {}
    /\ used = {}
    /\ nSubs = 0
    /\ watchKeys = <<>>
    /\ effKeys = <<>>
    /\ accT = "A"
    /\ accActive = 0
    /\ accNull = TRUE
    /\ nAct = 0
    /\ data = 0
    /\ loading = TRUE
    /\ trigger = 0
    /\ inflight = <<>>
    /\ overtaken = <<>>
    /\ facade = [p \in Provs |-> NoFacade]
    /\ gone = [t \in TS |-> {}]
    /\ step = NoStep

\* One window holds transport A; transport B is constructed and never used.
Init == InitBase /\ sameWindow = FALSE

\* Both transports are used, in one window or in two.
InitTwo == InitBase /\ sameWindow \in BOOLEAN

\* The world a task leaves behind becomes the state, if it fits the bounds.  An action
\* takes the world its handlers computed as the one element of a set.
Fits(W) ==
    /\ \A u \in TS : Len(W.inbox[u]) <= MaxQueue
    /\ Len(W.inflight) <= MaxInflight
    /\ \A p \in Provs : Len(W.facade[p].timeouts) <= MaxTimeouts

Commit(W) ==
    /\ Fits(W)
    /\ listeners' = W.listeners
    /\ lastSyncTime' = W.lastSyncTime
    /\ inbox' = W.inbox
    /\ inflight' = W.inflight
    /\ overtaken' = overtaken \o [k \in 1..(Len(W.inflight) - Len(overtaken)) |-> FALSE]
    /\ loading' = W.loading
    /\ facade' = W.facade

Did(op, t, key, cb, W) ==
    step' = [op |-> op, t |-> t, key |-> key, cb |-> cb, ret |-> 0,
             passes |-> W.passes, signals |-> W.signals, stale |-> FALSE,
             hung |-> W.hung]

----
\* SyncService.start without the isStarted test of lines 27-30.
StartUnguarded(t, ok) ==
    /\ isStarted' = [isStarted EXCEPT ![t] = TRUE]
    /\ channel' = [channel EXCEPT ![t] = IF ok THEN TRUE ELSE @]
    /\ chanOpen' = [chanOpen EXCEPT ![t] = IF ok THEN @ + 1 ELSE @]
    /\ storageListener' = [storageListener EXCEPT ![t] = TRUE]
    /\ customEventListener' = [customEventListener EXCEPT ![t] = TRUE]
    /\ winStorage' = [winStorage EXCEPT ![t] = @ + 1]
    /\ winCustom' = [winCustom EXCEPT ![t] = @ + 1]
    /\ refreshInterval' = [refreshInterval EXCEPT ![t] = TRUE]
    /\ timers' = [timers EXCEPT ![t] = @ + 1]

\* SyncService.start with initializeBroadcastChannel letting the error of
\* new BroadcastChannel(...) through: start() ends at line 32.
StartChannelThrows(t, ok) ==
    IF isStarted[t] THEN UNCHANGED transportVars
    ELSE IF ~ok
    THEN /\ isStarted' = [isStarted EXCEPT ![t] = TRUE]
         /\ UNCHANGED <<channel, chanOpen, storageListener, customEventListener,
                        winStorage, winCustom, refreshInterval, timers>>
    ELSE /\ isStarted' = [isStarted EXCEPT ![t] = TRUE]
         /\ channel' = [channel EXCEPT ![t] = TRUE]
         /\ chanOpen' = [chanOpen EXCEPT ![t] = @ + 1]
         /\ storageListener' = [storageListener EXCEPT ![t] = TRUE]
         /\ customEventListener' = [customEventListener EXCEPT ![t] = TRUE]
         /\ winStorage' = [winStorage EXCEPT ![t] = @ + 1]
         /\ winCustom' = [winCustom EXCEPT ![t] = @ + 1]
         /\ refreshInterval' = [refreshInterval EXCEPT ![t] = TRUE]
         /\ timers' = [timers EXCEPT ![t] = @ + 1]

\* SyncService.start with initializeBroadcastChannel, setupStorageListener and
\* startAutoRefresh; ok tells whether new BroadcastChannel(...) succeeds.
StartEffect(t, ok) ==
    IF isStarted[t] THEN UNCHANGED transportVars
    ELSE /\ isStarted' = [isStarted EXCEPT ![t] = TRUE]
         /\ channel' = [channel EXCEPT ![t] = IF ok THEN TRUE ELSE @]
         /\ chanOpen' = [chanOpen EXCEPT ![t] = IF ok THEN @ + 1 ELSE @]
         /\ storageListener' = [storageListener EXCEPT ![t] = TRUE]
         /\ customEventListener' = [customEventListener EXCEPT ![t] = TRUE]
         /\ winStorage' = [winStorage EXCEPT ![t] = @ + 1]
         /\ winCustom' = [winCustom EXCEPT ![t] = @ + 1]
         /\ refreshInterval' = [refreshInterval EXCEPT ![t] = TRUE]
         /\ timers' = [timers EXCEPT ![t] = @ + 1]

Start(t) ==
    /\ \E ok \in BOOLEAN : StartEffect(t, ok)
    /\ step' = [NoStep EXCEPT !.op = "start", !.t = t, !.ret = IF isStarted[t] THEN 1 ELSE 0]
    /\ UNCHANGED <<facade, listeners, lastSyncTime, inbox, now, sameWindow, gone, handleVars, hookVars,
                   loading, inflight, overtaken>>

\* SyncService.destroy without the listeners.clear() of line 199.
DestroyKeepsListeners(t) ==
    IF ~isStarted[t] THEN UNCHANGED <<transportVars, listeners, inbox>>
    ELSE /\ refreshInterval' = [refreshInterval EXCEPT ![t] = FALSE]
         /\ timers' = [timers EXCEPT ![t] = IF refreshInterval[t] THEN @ - 1 ELSE @]
         /\ channel' = [channel EXCEPT ![t] = FALSE]
         /\ chanOpen' = [chanOpen EXCEPT ![t] = IF channel[t] THEN @ - 1 ELSE @]
         /\ inbox' = [inbox EXCEPT ![t] = IF channel[t] /\ chanOpen[t] = 1 THEN <<>> ELSE @]
         /\ storageListener' = [storageListener EXCEPT ![t] = FALSE]
         /\ winStorage' = [winStorage EXCEPT ![t] = IF storageListener[t] THEN @ - 1 ELSE @]
         /\ customEventListener' = [customEventListener EXCEPT ![t] = FALSE]
         /\ winCustom' = [winCustom EXCEPT ![t] = IF customEventListener[t] THEN @ - 1 ELSE @]
         /\ listeners' = listeners
         /\ isStarted' = [isStarted EXCEPT ![t] = FALSE]

\* SyncService.destroy without the two removeEventListener calls of lines 190 and 195.
DestroyKeepsLanes(t) ==
    IF ~isStarted[t] THEN UNCHANGED <<transportVars, listeners, inbox>>
    ELSE /\ refreshInterval' = [refreshInterval EXCEPT ![t] = FALSE]
         /\ timers' = [timers EXCEPT ![t] = IF refreshInterval[t] THEN @ - 1 ELSE @]
         /\ channel' = [channel EXCEPT ![t] = FALSE]
         /\ chanOpen' = [chanOpen EXCEPT ![t] = IF channel[t] THEN @ - 1 ELSE @]
         /\ inbox' = [inbox EXCEPT ![t] = IF channel[t] /\ chanOpen[t] = 1 THEN <<>> ELSE @]
         /\ storageListener' = [storageListener EXCEPT ![t] = FALSE]
         /\ winStorage' = winStorage
         /\ customEventListener' = [customEventListener EXCEPT ![t] = FALSE]
         /\ winCustom' = winCustom
         /\ listeners' = [listeners EXCEPT ![t] = EmptyMap]
         /\ isStarted' = [isStarted EXCEPT ![t] = FALSE]

\* SyncService.destroy without the isStarted test of lines 175-177.
DestroyUnguarded(t) ==
    /\ refreshInterval' = [refreshInterval EXCEPT ![t] = FALSE]
    /\ timers' = [timers EXCEPT ![t] = IF refreshInterval[t] THEN @ - 1 ELSE @]
    /\ channel' = [channel EXCEPT ![t] = FALSE]
    /\ chanOpen' = [chanOpen EXCEPT ![t] = IF channel[t] THEN @ - 1 ELSE @]
    /\ inbox' = [inbox EXCEPT ![t] = IF channel[t] /\ chanOpen[t] = 1 THEN <<>> ELSE @]
    /\ storageListener' = [storageListener EXCEPT ![t] = FALSE]
    /\ winStorage' = [winStorage EXCEPT ![t] = IF storageListener[t] THEN @ - 1 ELSE @]
    /\ customEventListener' = [customEventListener EXCEPT ![t] = FALSE]
    /\ winCustom' = [winCustom EXCEPT ![t] = IF customEventListener[t] THEN @ - 1 ELSE @]
    /\ listeners' = [listeners EXCEPT ![t] = EmptyMap]
    /\ isStarted' = [isStarted EXCEPT ![t] = FALSE]

\* SyncService.destroy
DestroyEffect(t) ==
    IF ~isStarted[t] THEN UNCHANGED <<transportVars, listeners, inbox>>
    ELSE /\ refreshInterval' = [refreshInterval EXCEPT ![t] = FALSE]
         /\ timers' = [timers EXCEPT ![t] = IF refreshInterval[t] THEN @ - 1 ELSE @]
         /\ channel' = [channel EXCEPT ![t] = FALSE]
         /\ chanOpen' = [chanOpen EXCEPT ![t] = IF channel[t] THEN @ - 1 ELSE @]
         /\ inbox' = [inbox EXCEPT ![t] = IF channel[t] /\ chanOpen[t] = 1 THEN <<>> ELSE @]
         /\ storageListener' = [storageListener EXCEPT ![t] = FALSE]
         /\ winStorage' = [winStorage EXCEPT ![t] = IF storageListener[t] THEN @ - 1 ELSE @]
         /\ customEventListener' = [customEventListener EXCEPT ![t] = FALSE]
         /\ winCustom' = [winCustom EXCEPT ![t] = IF customEventListener[t] THEN @ - 1 ELSE @]
         /\ listeners' = [listeners EXCEPT ![t] = EmptyMap]
         /\ isStarted' = [isStarted EXCEPT ![t] = FALSE]

\* SyncService.stop
Stop(t) ==
    /\ DestroyEffect(t)
    /\ gone' = [gone EXCEPT ![t] = IF isStarted[t] THEN @ \cup Registered(listeners[t]) ELSE @]
    /\ Did("stop", t, NoKey, NoCb, World)
    /\ UNCHANGED <<facade, lastSyncTime, now, sameWindow, handleVars, hookVars, loading, inflight, overtaken>>

\* SyncService.subscribe, called by a plain caller, who keeps the handle.
Subscribe(t, key, callback) ==
    /\ nSubs < MaxSubs
    /\ nSubs' = nSubs + 1
    /\ listeners' = [listeners EXCEPT ![t] = SubscribeIn(@, key, callback)]
    /\ fresh' = fresh \cup {<<t, key, callback>>}
    /\ gone' = [gone EXCEPT ![t] = @ \ {callback}]
    /\ Did("subscribe", t, key, callback, World)
    /\ UNCHANGED <<facade, transportVars, lastSyncTime, inbox, now, sameWindow, used, hookVars,
                   loading, inflight, overtaken>>

\* The first call of a revocation handle.
Revoke(t, key, callback) ==
    /\ <<t, key, callback>> \in fresh
    /\ fresh' = fresh \ {<<t, key, callback>>}
    /\ used' = used \cup {<<t, key, callback>>}
    /\ listeners' = [listeners EXCEPT ![t] = RevokeIn(@, key, callback)]
    /\ Did("revoke", t, key, callback, World)
    /\ UNCHANGED <<facade, transportVars, lastSyncTime, inbox, now, sameWindow, gone, nSubs, hookVars,
                   loading, inflight, overtaken>>

\* A second or later call of a revocation handle.
RevokeAgain(t, key, callback) ==
    /\ <<t, key, callback>> \in used
    /\ listeners' = [listeners EXCEPT ![t] = RevokeIn(@, key, callback)]
    /\ Did("revokeAgain", t, key, callback, World)
    /\ UNCHANGED <<facade, transportVars, lastSyncTime, inbox, now, sameWindow, gone, handleVars, hookVars,
                   loading, inflight, overtaken>>

\* SyncService.notifyUpdate
NotifyUpdate(t, key) ==
    /\ \E W \in {Broadcast(World, t, [type |-> "storage-update", key |-> key])} :
           /\ Commit(W)
           /\ Did("notifyUpdate", t, key, NoCb, W)
    /\ UNCHANGED <<transportVars, now, sameWindow, gone, handleVars, hookVars>>

\* SyncService.forceSync; forceSync() without a key is key NoKey.
ForceSync(t, key) ==
    /\ \E W \in {Broadcast(World, t, [type |-> "force-sync", key |-> key])} :
           /\ Commit(W)
           /\ Did("forceSync", t, key, NoCb, W)
    /\ UNCHANGED <<transportVars, now, sameWindow, gone, handleVars, hookVars>>

\* SyncService.getLastSyncTime
GetLastSyncTime(t) ==
    /\ step' = [NoStep EXCEPT !.op = "getLastSyncTime", !.t = t, !.ret = lastSyncTime[t]]
    /\ UNCHANGED <<facade, transportVars, listeners, lastSyncTime, inbox, now, sameWindow, gone,
                   handleVars, hookVars, loading, inflight, overtaken>>

\* The interval callback of startAutoRefresh, for one running timer of the transport.
TimerFire(t) ==
    /\ timers[t] > 0
    /\ \E W \in {Broadcast(World, t, [type |-> "data-refresh", key |-> NoKey])} :
           /\ Commit(W)
           /\ Did("tick", t, NoKey, NoCb, W)
    /\ UNCHANGED <<transportVars, now, sameWindow, gone, handleVars, hookVars>>

\* The event loop delivers the oldest channel message posted to the transport.
Deliver(t) ==
    /\ inbox[t] # <<>>
    /\ chanOpen[t] > 0
    /\ \E message \in {Head(inbox[t])} :
       \E W \in {OnMessage([World EXCEPT !.inbox[t] = Tail(@)], t, message, chanOpen[t])} :
           /\ Commit(W)
           /\ step' = [op |-> "deliver", t |-> t, key |-> message.key, cb |-> NoCb,
                        ret |-> message.timestamp, passes |-> W.passes,
                        signals |-> W.signals, stale |-> FALSE, hung |-> W.hung]
    /\ UNCHANGED <<transportVars, now, sameWindow, gone, handleVars, hookVars>>

\* Another context changed the store: a 'storage' event in window w (key NoKey: clear()).
StorageEvent(w, key) ==
    /\ \E t \in TS : Win(t) = w
    /\ \E W \in {DispatchStorageEvent(World, w, key, 1)} :
           /\ Commit(W)
           /\ Did("storage", T[w], key, NoCb, W)
    /\ UNCHANGED <<transportVars, now, sameWindow, gone, handleVars, hookVars>>

\* Other code of window w dispatches 'storage-update' with a detail that has a key and
\* no type.
KeyEvent(w, key) ==
    /\ \E t \in TS : Win(t) = w
    /\ \E W \in {DispatchCustomEvent(World, w, [type |-> NoKey, key |-> key,
                                                  timestamp |-> now], 1)} :
           /\ Commit(W)
           /\ Did("keyEvent", T[w], key, NoCb, W)
    /\ UNCHANGED <<transportVars, now, sameWindow, gone, handleVars, hookVars>>

\* Time passes, up to a limit.
TickTo(limit) ==
    /\ now < limit
    /\ now' = now + 1
    /\ step' = [NoStep EXCEPT !.op = "clock"]
    /\ UNCHANGED <<facade, transportVars, listeners, lastSyncTime, inbox, sameWindow, gone, handleVars,
                   hookVars, loading, inflight, overtaken>>

Tick == TickTo(MaxClock)

----
\* SyncProvider mounts: the first render (useState initial values), then its effect
\* starts the transport and installs handleSyncTimeUpdate on the window.
ProvMount(p) ==
    /\ ~facade[p].active
    /\ \E ok \in BOOLEAN : StartEffect(ProvT, ok)
    /\ facade' = [facade EXCEPT ![p] = [NoFacade EXCEPT !.active = TRUE, !.lastSyncTime = now]]
    /\ step' = [NoStep EXCEPT !.op = "provMount", !.t = ProvT, !.ret = p]
    /\ UNCHANGED <<listeners, lastSyncTime, inbox, now, sameWindow, gone, handleVars, hookVars,
                   loading, inflight, overtaken>>

\* SyncProvider unmounts: the effect's cleanup removes the window listener and stops the
\* transport.  The setTimeout callbacks still pending will set the state of a component
\* that is gone; they are dropped here.
ProvUnmount(p) ==
    /\ facade[p].active
    /\ DestroyEffect(ProvT)
    /\ gone' = [gone EXCEPT ![ProvT] = IF isStarted[ProvT] THEN @ \cup Registered(listeners[ProvT])
                                       ELSE @]
    /\ facade' = [facade EXCEPT ![p].active = FALSE, ![p].timeouts = <<>>]
    /\ step' = [NoStep EXCEPT !.op = "provUnmount", !.t = ProvT, !.ret = p]
    /\ UNCHANGED <<lastSyncTime, now, sameWindow, handleVars, hookVars, loading, inflight, overtaken>>

\* The oldest pending setTimeout callback of handleSyncTimeUpdate runs, at or after the
\* time it is due: setIsSyncing(false).
TimeoutFire(p) ==
    /\ facade[p].timeouts # <<>>
    /\ Head(facade[p].timeouts) <= now
    /\ facade' = [facade EXCEPT ![p].isSyncing = FALSE, ![p].timeouts = Tail(@)]
    /\ step' = [NoStep EXCEPT !.op = "timeout", !.ret = Head(facade[p].timeouts)]
    /\ UNCHANGED <<transportVars, listeners, lastSyncTime, inbox, now, sameWindow, gone,
                   handleVars, hookVars, loading, inflight, overtaken>>

----
\* The component mounts: the first render (useState initial values) and its effect.
AccMount(ks, t) ==
    /\ accActive = 0
    /\ nAct < MaxAct
    /\ \E W \in {Effect([World EXCEPT !.loading = TRUE], t, ks, nAct + 1, TRUE)} :
           /\ Commit(W)
           /\ Did("mount", t, NoKey, <<"doFetch", nAct + 1>>, W)
           /\ accActive' = W.active
           /\ accNull' = W.accNull
    /\ nAct' = nAct + 1
    /\ data' = 0
    /\ trigger' = 0
    /\ watchKeys' = ks
    /\ effKeys' = ks
    /\ accT' = t
    /\ UNCHANGED <<transportVars, now, sameWindow, gone, handleVars>>

\* The effect runs again: the cleanup of the running activation, then a new one.
Rerun(op, ks, t) ==
    /\ nAct < MaxAct
    /\ \E W \in {Effect(Cleanup(World, accT, effKeys, accActive), t, ks, nAct + 1, data = 0)} :
           /\ Commit(W)
           /\ Did(op, t, NoKey, <<"doFetch", nAct + 1>>, W)
           /\ accActive' = W.active
           /\ accNull' = W.accNull
    /\ nAct' = nAct + 1
    /\ watchKeys' = ks
    /\ effKeys' = ks
    /\ accT' = t

\* refetch(): setTrigger, and the render that follows runs the effect again.
AccRefetch ==
    /\ accActive # 0
    /\ trigger' = trigger + 1
    /\ Rerun("refetch", watchKeys, accT)
    /\ UNCHANGED <<transportVars, now, sameWindow, gone, handleVars, data>>

\* A render with another watchKeys array: the effect runs again when keysDependency differs.
AccSetKeys(ks) ==
    /\ accActive # 0
    /\ ks # watchKeys
    /\ IF Join(ks) # Join(watchKeys)
       THEN Rerun("setKeys", ks, accT)
       ELSE /\ watchKeys' = ks
            /\ Did("setKeys", accT, NoKey, NoCb, World)
            /\ UNCHANGED <<facade, listeners, lastSyncTime, inbox, inflight, overtaken, loading, effKeys, accT,
                           accActive, accNull, nAct>>
    /\ UNCHANGED <<transportVars, now, sameWindow, gone, handleVars, data, trigger>>

\* A render under a provider that gives another transport.
AccSetTransport(t) ==
    /\ accActive # 0
    /\ t # accT
    /\ Rerun("setTransport", watchKeys, t)
    /\ UNCHANGED <<transportVars, now, sameWindow, gone, handleVars, data, trigger>>

\* The component unmounts: the effect's cleanup.
AccUnmount ==
    /\ accActive # 0
    /\ \E W \in {Cleanup(World, accT, effKeys, accActive)} :
           /\ Commit(W)
           /\ Did("unmount", accT, NoKey, <<"doFetch", accActive>>, W)
           /\ accActive' = W.active
    /\ UNCHANGED <<transportVars, now, sameWindow, gone, handleVars, watchKeys, effKeys, accT,
                   accNull, nAct, data, trigger>>

\* The j-th pending fetcher() promise settles: it resolves with result, or rejects.
FetchSettle(j, ok, result) ==
    /\ j \in 1..Len(inflight)
    /\ LET i == inflight[j]
           S == Settled(i, ok, result)
       IN  /\ data' = S.data
           /\ loading' = S.loading
           /\ step' = [NoStep EXCEPT !.op = IF ok THEN "resolve" ELSE "reject",
                                     !.cb = <<"doFetch", i>>,
                                     !.ret = IF ok THEN result ELSE 0,
                                     !.stale = overtaken[j]]
           /\ overtaken' =
                  LET o == [k \in 1..Len(inflight) |->
                               overtaken[k] \/ (ok /\ k < j /\ inflight[k] = i)]
                  IN  SubSeq(o, 1, j - 1) \o SubSeq(o, j + 1, Len(o))
    /\ inflight' = SubSeq(inflight, 1, j - 1) \o SubSeq(inflight, j + 1, Len(inflight))
    /\ UNCHANGED <<facade, transportVars, listeners, lastSyncTime, inbox, now, sameWindow, gone, handleVars,
                   watchKeys, effKeys, accT, accActive, accNull, nAct, trigger>>

----
\* One transport in its window: its API, its ticker, and the events of its window.
Next ==
    \/ Start("A")
    \/ Stop("A")
    \/ \E key \in SubKeys, callback \in CB : Subscribe("A", key, callback)
    \/ \E key \in SubKeys, callback \in CB : Revoke("A", key, callback)
    \/ \E key \in SubKeys, callback \in CB : RevokeAgain("A", key, callback)
    \/ \E key \in Keys : NotifyUpdate("A", key)
    \/ \E key \in Keys : ForceSync("A", key)
    \/ TimerFire("A")
    \/ \E key \in {"a", NoKey} : StorageEvent(1, key)
    \/ \E key \in {"a", NoKey} : KeyEvent(1, key)

Spec == Init /\ [][Next]_vars

\* Two transports and every lane, with time passing; nobody subscribes.
NextLanes ==
    \/ \E t \in TS : Start(t)
    \/ \E t \in TS : Stop(t)
    \/ \E t \in TS : NotifyUpdate(t, "a")
    \/ \E t \in TS : ForceSync(t, NoKey)
    \/ \E t \in TS : GetLastSyncTime(t)
    \/ \E t \in TS : TimerFire(t)
    \/ \E t \in TS : Deliver(t)
    \/ \E w \in 1..2 : StorageEvent(w, "a")
    \/ \E w \in 1..2 : KeyEvent(w, "a")
    \/ Tick

SpecLanes == InitTwo /\ [][NextLanes]_vars

\* Two transports, each in its own window, on the shared channel: a caller subscribes on
\* B and revokes, A notifies, B stops and starts again, and the event loop delivers
\* every message queued for B's open channel.
NextCross ==
    \/ \E t \in TS : Start(t)
    \/ Stop("B")
    \/ \E key \in {"a", Wild} : Subscribe("B", key, <<"cb", 1>>)
    \/ \E key \in {"a", Wild} : Revoke("B", key, <<"cb", 1>>)
    \/ \E key \in {"a", NoKey} : NotifyUpdate("A", key)
    \/ Deliver("B")

SpecCross == Init /\ [][NextCross]_vars /\ WF_vars(Deliver("B"))

\* The hook's life: mount, refetch, new keys, another transport, unmount, and its
\* fetches settling.
NextHook ==
    \/ \E ks \in WatchSets, t \in TS : AccMount(ks, t)
    \/ AccRefetch
    \/ \E ks \in WatchSets : AccSetKeys(ks)
    \/ \E t \in TS : AccSetTransport(t)
    \/ AccUnmount
    \/ \E j \in 1..MaxInflight, ok \in BOOLEAN :
           \E result \in (IF ok THEN Results ELSE {0}) : FetchSettle(j, ok, result)

SpecHook == Init /\ [][NextHook]_vars

\* A component on transport A while A starts, stops and notifies.
NextFeed ==
    \/ Start("A")
    \/ Stop("A")
    \/ \E key \in {"a", Wild, NoKey} : NotifyUpdate("A", key)
    \/ \E ks \in WatchSets : AccMount(ks, "A")
    \/ \E ks \in WatchSets : AccSetKeys(ks)
    \/ AccUnmount
    \/ \E j \in 1..MaxInflight, ok \in BOOLEAN : FetchSettle(j, ok, IF ok THEN 1 ELSE 0)

SpecFeed == Init /\ [][NextFeed]_vars

\* A component on transport A while A's ticker fires.
NextAuto ==
    \/ Start("A")
    \/ Stop("A")
    \/ TimerFire("A")
    \/ \E ks \in WatchSets : AccMount(ks, "A")
    \/ AccUnmount
    \/ \E j \in 1..MaxInflight, ok \in BOOLEAN : FetchSettle(j, ok, IF ok THEN 1 ELSE 0)

SpecAuto == Init /\ [][NextAuto]_vars

\* The hook's life on transport A or B while A starts, stops and notifies.
NextLife ==
    \/ Start("A")
    \/ Stop("A")
    \/ NotifyUpdate("A", "a")
    \/ \E ks \in WatchSets, t \in TS : AccMount(ks, t)
    \/ AccRefetch
    \/ \E ks \in WatchSets : AccSetKeys(ks)
    \/ \E t \in TS : AccSetTransport(t)
    \/ AccUnmount
    \/ \E j \in 1..MaxInflight, ok \in BOOLEAN : FetchSettle(j, ok, IF ok THEN 1 ELSE 0)

SpecLife == Init /\ [][NextLife]_vars

\* Transport B through start and stop while every lane brings it events: A's messages
\* on the channel, its own ticker, storage events and 'storage-update' events of its
\* window, with time passing.
NextStop ==
    \/ \E t \in TS : Start(t)
    \/ Stop("B")
    \/ \E callback \in CB : Subscribe("B", "a", callback)
    \/ NotifyUpdate("A", "a")
    \/ Deliver("B")
    \/ TimerFire("B")
    \/ \E w \in 1..2 : StorageEvent(w, "a")
    \/ \E w \in 1..2 : KeyEvent(w, "a")
    \/ Tick

SpecStop == InitTwo /\ [][NextStop]_vars

\* One transport whose subscribers include callbacks that subscribe and revoke while a
\* dispatch pass runs them.
NextReenter ==
    \/ Start("A")
    \/ Stop("A")
    \/ \E key \in {"a", Wild}, callback \in CB \cup ReCB : Subscribe("A", key, callback)
    \/ \E key \in {"a", "b"} : NotifyUpdate("A", key)

SpecReenter == Init /\ [][NextReenter]_vars

\* The SyncProvider on transport A: it mounts and unmounts, the transport broadcasts,
\* time passes and the setTimeout callbacks run.
NextFacade ==
    \/ ProvMount(1)
    \/ ProvUnmount(1)
    \/ NotifyUpdate(ProvT, "a")
    \/ ForceSync(ProvT, NoKey)
    \/ TimerFire(ProvT)
    \/ TimeoutFire(1)
    \/ TickTo(MaxTime)

SpecFacade == Init /\ [][NextFacade]_vars

\* The watchKeys arrays a component passes from render to render: among them an array
\* of two keys and an array whose one key holds a comma.
KeyArrays == {<<"a">>, <<"a", "b">>, <<"b", "a">>, <<"a,b">>, <<>>}

\* A component that is rendered with one watchKeys array after another, under one
\* provider or another.
NextKeys ==
    \/ \E ks \in KeyArrays, t \in TS : AccMount(ks, t)
    \/ \E ks \in KeyArrays : AccSetKeys(ks)
    \/ \E t \in TS : AccSetTransport(t)
    \/ AccUnmount
    \/ \E j \in 1..MaxInflight, ok \in BOOLEAN : FetchSettle(j, ok, IF ok THEN 1 ELSE 0)

SpecKeys == Init /\ [][NextKeys]_vars

\* A component on transport A whose fetches resolve in any order with one value or
\* another, while A notifies its watch key.
NextRace ==
    \/ Start("A")
    \/ Stop("A")
    \/ NotifyUpdate("A", "a")
    \/ AccMount(<<"a">>, "A")
    \/ AccRefetch
    \/ AccUnmount
    \/ \E j \in 1..MaxInflight, ok \in BOOLEAN :
           \E result \in (IF ok THEN Results ELSE {0}) : FetchSettle(j, ok, result)

SpecRace == Init /\ [][NextRace]_vars

\* One transport whose subscribers, all under one key, include a callback that revokes
\* itself and subscribes itself again when it is called.  A task that is stuck in a dispatch pass keeps the
\* thread: nothing else runs after it.
NextAgain ==
    \/ ~step.hung /\ Start("A")
    \/ ~step.hung /\ Stop("A")
    \/ ~step.hung /\ \E callback \in CB \cup AgainCB : Subscribe("A", ReKey, callback)
    \/ ~step.hung /\ \E key \in {"a", "b"} : NotifyUpdate("A", key)

SpecAgain == Init /\ [][NextAgain]_vars

\* Transport A called while it is Stopped or Started, with its subscribers, while
\* transport B listens in A's window or in another, and time passes.
NextIdle ==
    \/ \E t \in TS : Start(t)
    \/ Stop("A")
    \/ \E key \in {"a", Wild} : Subscribe("A", key, <<"cb", 1>>)
    \/ \E key \in {"a", NoKey} : NotifyUpdate("A", key)
    \/ \E key \in {"a", NoKey} : ForceSync("A", key)
    \/ Tick

SpecIdle == InitTwo /\ [][NextIdle]_vars

\* Two SyncProviders on the one transport A, mounting and unmounting in any order, while
\* callers subscribe on A and A broadcasts.
NextScopes ==
    \/ \E p \in Provs : ProvMount(p)
    \/ \E p \in Provs : ProvUnmount(p)
    \/ \E callback \in CB : Subscribe(ProvT, "a", callback)
    \/ NotifyUpdate(ProvT, "a")

SpecScopes == Init /\ [][NextScopes]_vars

\* One transport whose callers subscribe and revoke in any order while it notifies.
NextOrder ==
    \/ Start("A")
    \/ Stop("A")
    \/ \E key \in {"a", Wild}, callback \in CB : Subscribe("A", key, callback)
    \/ \E key \in {"a", Wild}, callback \in CB : Revoke("A", key, callback)
    \/ \E key \in {"a", "b", Wild} : NotifyUpdate("A", key)

SpecOrder == Init /\ [][NextOrder]_vars

----
\* What the last task did.
\* The number of times the dispatch passes of transport t called cb.
FiredOn(s, t, cb) ==
    Cardinality(UNION {{<<i, j>> : j \in {j \in 1..Len(s.passes[i].fired) :
                                            s.passes[i].fired[j] = cb}} :
                       i \in {i \in 1..Len(s.passes) : s.passes[i].t = t}})
PassesOn(s, t) == {i \in 1..Len(s.passes) : s.passes[i].t = t}
IsNotify(s) == s.op \in {"notifyUpdate", "forceSync"}
\* cb is registered under key K and under no other key.
OnlyUnder(L, K, cb) ==
    /\ InSeq(Bucket(L, K), cb)
    /\ \A k \in DOMAIN L \ {K} : ~InSeq(L[k], cb)

\* C1: on a Started transport, a callback subscribed under key K is called exactly once
\* per notifyUpdate(K) or forceSync(K), also when it is registered under several keys,
\* and a callback that is registered under no key (revoked, or never subscribed) is not
\* called.  (K ranges over the non-empty keys.)
C1_ExactlyOncePerNotify ==
    [][\A cb \in CB :
         LET s == step' IN
         (IsNotify(s) /\ isStarted[s.t] /\ s.key # NoKey) =>
             /\ InSeq(Bucket(listeners[s.t], s.key), cb) => FiredOn(s, s.t, cb) = 1
             /\ cb \notin Registered(listeners[s.t]) => FiredOn(s, s.t, cb) = 0]_vars

\* C2: on a Started transport, a callback registered only under key K, K not the
\* wildcard, is not called by notifyUpdate(K2) or forceSync(K2) for any K2 other than K.
C2_OtherKeysSilent ==
    [][\A cb \in CB, K \in Keys \ {Wild} :
         LET s == step' IN
         (IsNotify(s) /\ isStarted[s.t] /\ s.key # K /\ OnlyUnder(listeners[s.t], K, cb))
             => FiredOn(s, s.t, cb) = 0]_vars

\* C2 witness: notifyUpdate("b") has run its dispatch pass on the Started transport
\* while a callback was registered under "a" alone.
C2_Witness ==
    /\ step.op = "notifyUpdate" /\ step.key = "b" /\ isStarted[step.t]
    /\ PassesOn(step, step.t) # {}
    /\ \E cb \in CB : OnlyUnder(listeners[step.t], "a", cb)

\* C3: in every dispatch pass, whatever the key of its message, each callback that is
\* subscribed under the wildcard is called exactly once.
C3_WildcardOncePerDispatch ==
    [][\A cb \in CB, i \in 1..Len(step'.passes) :
         LET p == step'.passes[i] IN
         InSeq(Bucket(listeners[p.t], Wild), cb) => Count(p.fired, cb) = 1]_vars

\* C5: start() on a Started transport changes nothing; at most one ticker, channel and
\* listener of each lane exist, exactly one of each (the channel apart, which may fail
\* to open) while Started; and a ticker firing is one data-refresh dispatch pass.
C5_SingleTicker ==
    [][LET s == step' IN
       /\ (s.op = "start" /\ isStarted[s.t]) =>
              UNCHANGED <<transportVars, listeners, lastSyncTime, inbox>>
       /\ \A t \in TS :
              /\ timers'[t] = (IF isStarted'[t] THEN 1 ELSE 0)
              /\ winStorage'[t] = timers'[t] /\ winCustom'[t] = timers'[t]
              /\ chanOpen'[t] <= timers'[t]
       /\ s.op = "tick" =>
              /\ Cardinality(PassesOn(s, s.t)) = 1
              /\ \A i \in PassesOn(s, s.t) : s.passes[i].key = Wild]_vars

\* C5 witness: start() was called on a Started transport (the warning), whose one
\* ticker is running.
C5_Witness ==
    step.op = "start" /\ step.ret = 1 /\ isStarted[step.t] /\ timers[step.t] = 1

\* C6 as stated: after every call of stop() the registry is empty, and no later
\* dispatch calls a callback that a stop() cleared and that was not subscribed since.
C6_EveryStopEmpties ==
    [][LET s == step' IN
       /\ s.op = "stop" => listeners'[s.t] = EmptyMap
       /\ \A i \in 1..Len(s.passes), cb \in CB :
              cb \in gone[s.passes[i].t] => ~InSeq(s.passes[i].fired, cb)]_vars

\* C6 amended: after every call of stop() on a Started transport the registry is empty;
\* afterwards no dispatch calls a callback that the stop() cleared and that was not
\* subscribed since, and a notifyUpdate(K) calls the callbacks then registered under K.
C6_StartedStopEmpties ==
    [][LET s == step' IN
       /\ (s.op = "stop" /\ isStarted[s.t]) => listeners'[s.t] = EmptyMap
       /\ \A i \in 1..Len(s.passes), cb \in CB :
              cb \in gone[s.passes[i].t] => ~InSeq(s.passes[i].fired, cb)
       /\ (s.op = "notifyUpdate" /\ isStarted[s.t] /\ s.key # NoKey) =>
              \A cb \in CB : InSeq(Bucket(listeners[s.t], s.key), cb)
                                 => FiredOn(s, s.t, cb) >= 1]_vars

\* C6 witness: after a stop() that cleared a callback and a start(), a notifyUpdate has
\* called a callback subscribed since and not the cleared one.
C6_Witness ==
    /\ step.op = "notifyUpdate" /\ isStarted[step.t]
    /\ \E old \in gone[step.t], new \in CB :
           /\ new \notin gone[step.t]
           /\ FiredOn(step, step.t, new) = 1
           /\ FiredOn(step, step.t, old) = 0

\* C7: a second or later call of a revocation handle leaves the registry unchanged.
C7_SecondCallNoOp ==
    [][step'.op = "revokeAgain" => listeners' = listeners]_vars

\* C4: with a clock that never goes back, lastSyncTime of a transport never decreases,
\* whatever runs (notifyUpdate, forceSync, ticker, channel delivery, storage and window
\* events, start, stop); getLastSyncTime() returns it and changes nothing.
C4_SyncTimeMonotone ==
    [][/\ \A t \in TS : lastSyncTime'[t] >= lastSyncTime[t]
       /\ step'.op = "getLastSyncTime" =>
              /\ step'.ret = lastSyncTime[step'.t]
              /\ UNCHANGED <<transportVars, listeners, lastSyncTime, inbox, now, sameWindow,
                             handleVars, hookVars, loading, inflight, overtaken, gone>>]_vars

\* C4 witness: a channel message stamped before the receiver's present time was
\* delivered, and the receiver's lastSyncTime is the present time.
C4_Witness ==
    /\ step.op = "deliver"
    /\ step.ret < now
    /\ lastSyncTime[step.t] = now

Subscribed(t, K, cb) ==
    InSeq(Bucket(listeners[t], K), cb) \/ InSeq(Bucket(listeners[t], Wild), cb)
\* notifyUpdate(K) has just run on A, both transports Started with the channel open,
\* cb subscribed on B under K or under the wildcard.
Notified(K, cb) ==
    /\ step.op = "notifyUpdate" /\ step.t = "A" /\ step.key = K
    /\ isStarted["A"] /\ isStarted["B"] /\ channel["A"] /\ channel["B"]
    /\ Subscribed("B", K, cb)

\* C8 as stated: every notifyUpdate(K) on A, both transports Started with the channel
\* open, leads to a call on B of each callback subscribed there under K or '*'.
C8_EveryNotifyReaches ==
    \A K \in Keys, cb \in CB : Notified(K, cb) ~> (FiredOn(step, "B", cb) >= 1)

\* C8 amended: every notifyUpdate(K) on A with a non-empty key K leads to a call on B of
\* each callback subscribed there under K or '*', unless B is stopped or the callback
\* is no longer subscribed under K or '*' before the message is delivered.
C8_NotifyReachesSubscribed ==
    \A K \in Keys \ {NoKey}, cb \in CB :
        Notified(K, cb) ~> \/ FiredOn(step, "B", cb) >= 1
                           \/ ~isStarted["B"]
                           \/ ~Subscribed("B", K, cb)

\* C8 witness: B, in another window than A, was delivered A's message from the channel
\* and called a subscribed callback.
C8_Witness ==
    /\ ~sameWindow
    /\ step.op = "deliver" /\ step.t = "B" /\ step.key = "a"
    /\ \E cb \in CB : InSeq(Bucket(listeners["B"], "a"), cb) /\ FiredOn(step, "B", cb) >= 1

\* C9: when the promise of a fetch settles whose activation is no longer the active one
\* (unmount, or a newer activation), data and loading stay as they are.
C9_StaleFetchDiscarded ==
    [][(step'.op \in {"resolve", "reject"} /\ step'.cb[2] # accActive)
           => data' = data /\ loading' = loading]_vars

\* C9 witness: a fetch of a deactivated activation resolved with a result that is not
\* the data.
C9_Witness ==
    /\ step.op = "resolve"
    /\ step.cb[2] # accActive
    /\ step.ret # data

Range(ks) == {ks[i] : i \in 1..Len(ks)}
Mine == <<"doFetch", accActive>>

\* C10 as stated: while the hook is active on a Started transport, notifyUpdate(K) with
\* K among its watch keys, or with any K when '*' is among them, starts a fetch.
C10_NotifyStartsFetch ==
    [][LET s == step' IN
       (/\ s.op = "notifyUpdate" /\ s.t = accT /\ isStarted[accT]
        /\ accActive # 0
        /\ s.key \in Range(watchKeys) \/ Wild \in Range(watchKeys))
           => Len(inflight') > Len(inflight)]_vars

\* C10 amended: while the hook is active on a Started transport that still holds the
\* subscriptions of the running activation (no stop() since), notifyUpdate(K) with a
\* non-empty K among the keys that activation subscribed, or with any non-empty K when
\* '*' is among them, starts a fetch.
C10_NotifyStartsFetchWhileSubscribed ==
    [][LET s == step' IN
       (/\ s.op = "notifyUpdate" /\ s.t = accT /\ isStarted[accT]
        /\ accActive # 0
        /\ s.key # NoKey
        /\ s.key \in Range(effKeys) \/ Wild \in Range(effKeys)
        /\ \A k \in Range(effKeys) : InSeq(Bucket(listeners[accT], k), Mine))
           => Len(inflight') > Len(inflight)]_vars

\* C10 witness: notifyUpdate("a") called the doFetch of an activation that watches '*',
\* and its fetch is pending.
C10_Witness ==
    /\ step.op = "notifyUpdate" /\ step.key = "a" /\ isStarted[accT]
    /\ accActive # 0 /\ effKeys = <<Wild>>
    /\ FiredOn(step, accT, Mine) = 1
    /\ inflight # <<>> /\ inflight[Len(inflight)] = accActive

\* C11: every firing of the ticker of a Started transport starts a fetch of the hook that
\* is active on it, whatever its watch keys.
C11_TickerRefetchesAll ==
    [][LET s == step' IN
       (s.op = "tick" /\ s.t = accT /\ isStarted[accT] /\ accActive # 0)
           => Len(inflight') > Len(inflight)]_vars

\* C12: the only doFetch callbacks in a registry are those of the running activation, in
\* the registry of its transport: a deactivated activation has left none behind.
C12_NoListenerLeak ==
    \A t \in TS : \A cb \in Registered(listeners[t]) :
        cb[1] = "doFetch" => (cb[2] = accActive /\ t = accT)

\* C12 witness: the second mount of the component has been unmounted, its activation had
\* subscribed under two keys, and the registry of its transport holds no callback.
C12_Witness ==
    /\ step.op = "unmount" /\ nAct = 2 /\ accActive = 0
    /\ Len(effKeys) = 2
    /\ Registered(listeners[accT]) = {}

\* A message that carries no key: a storage-update or force-sync broadcast without one,
\* or the data-refresh of the ticker.
Keyless(s) == (IsNotify(s) /\ s.key = NoKey) \/ s.op = "tick"

\* C13 as stated: on a Started transport a storage-update or force-sync message without
\* a key, and every data-refresh message, calls the callbacks registered under '*' and
\* no other callback.
C13_KeylessToWildcard ==
    [][\A cb \in CB :
         LET s == step' IN
         (Keyless(s) /\ isStarted[s.t]) =>
             (FiredOn(s, s.t, cb) >= 1 <=> InSeq(Bucket(listeners[s.t], Wild), cb))]_vars

\* C13 amended: a force-sync message without a key and every data-refresh message call
\* the callbacks registered under '*' and no other callback; a storage-update message
\* without a key calls no callback.
C13_KeylessForceAndRefreshToWildcard ==
    [][\A cb \in CB :
         LET s == step' IN
         (Keyless(s) /\ isStarted[s.t]) =>
             IF s.op = "notifyUpdate" THEN FiredOn(s, s.t, cb) = 0
             ELSE (FiredOn(s, s.t, cb) >= 1 <=> InSeq(Bucket(listeners[s.t], Wild), cb))]_vars

\* C13 witness: forceSync() without a key has called a callback registered under '*' and
\* not the callback registered under "a" alone.
C13_Witness ==
    /\ step.op = "forceSync" /\ step.key = NoKey /\ isStarted[step.t]
    /\ \E cb \in CB : /\ InSeq(Bucket(listeners[step.t], Wild), cb)
                      /\ FiredOn(step, step.t, cb) = 1
    /\ \E cb \in CB : /\ OnlyUnder(listeners[step.t], "a", cb)
                      /\ FiredOn(step, step.t, cb) = 0

\* C14: stop() on a Started transport leaves it Stopped with its ticker cancelled, its
\* channel closed and both window listeners removed; and while a transport is Stopped,
\* no ticker firing, channel message, storage event or window event (anything but a call
\* of its own start, notifyUpdate or forceSync) runs a dispatch pass on it or changes
\* its lastSyncTime.
C14_StopReleasesAll ==
    [][LET s == step' IN
       /\ (s.op = "stop" /\ isStarted[s.t]) =>
              /\ ~isStarted'[s.t]
              /\ ~refreshInterval'[s.t] /\ timers'[s.t] = 0
              /\ ~channel'[s.t] /\ chanOpen'[s.t] = 0 /\ inbox'[s.t] = <<>>
              /\ ~storageListener'[s.t] /\ winStorage'[s.t] = 0
              /\ ~customEventListener'[s.t] /\ winCustom'[s.t] = 0
       /\ \A t \in TS :
              (~isStarted[t] /\ ~(s.t = t /\ s.op \in {"start", "notifyUpdate", "forceSync"}))
                  => /\ PassesOn(s, t) = {}
                     /\ lastSyncTime'[t] = lastSyncTime[t]]_vars

\* C14 witness: B was started and stopped, a callback was subscribed on it since, and a
\* storage event of its window, later than its lastSyncTime, has called nobody.
C14_Witness ==
    /\ step.op = "storage" /\ Win("B") = 2
    /\ ~isStarted["B"] /\ gone["B"] # {}
    /\ Bucket(listeners["B"], "a") # <<>>
    /\ now > lastSyncTime["B"]
    /\ step.passes = <<>>

\* C15: stop() on a Stopped transport changes nothing: isStarted, the registry,
\* lastSyncTime, the ticker, the channel and the window listeners stay as they are.
C15_StopWhileStoppedNoOp ==
    [][(step'.op = "stop" /\ ~isStarted[step'.t]) =>
           UNCHANGED <<transportVars, listeners, lastSyncTime, inbox>>]_vars

\* C15 witness: stop() was called on a Stopped transport that had been started and
\* stopped before and holds a subscription made since.
C15_Witness ==
    /\ step.op = "stop" /\ ~isStarted[step.t]
    /\ gone[step.t] # {}
    /\ Registered(listeners[step.t]) # {}

\* C16: a dispatch pass calls exactly the callbacks that were registered under its key,
\* and then those registered under the wildcard, when the pass began, in that order,
\* whatever the callbacks subscribe or revoke while the pass runs them.
C16_PassVisitsSnapshot ==
    [][\A i \in 1..Len(step'.passes) :
         LET p == step'.passes[i] IN
         p.fired = Bucket(listeners[p.t], p.key)
                       \o (IF p.key # Wild THEN Bucket(listeners[p.t], Wild) ELSE <<>>)]_vars

\* C17: when the channel does not open in start(), the transport is Started with its
\* ticker and both window listeners; a notifyUpdate(K), K not empty, on it calls the
\* callbacks subscribed under K and under '*'; and stop() leaves it Stopped with
\* everything released.
C17_NoChannelStillWorks ==
    [][LET s == step' IN
       /\ (s.op = "start" /\ ~isStarted[s.t] /\ ~channel'[s.t]) =>
              /\ isStarted'[s.t] /\ chanOpen'[s.t] = 0
              /\ refreshInterval'[s.t] /\ timers'[s.t] = 1
              /\ storageListener'[s.t] /\ winStorage'[s.t] = 1
              /\ customEventListener'[s.t] /\ winCustom'[s.t] = 1
       /\ (s.op = "notifyUpdate" /\ isStarted[s.t] /\ ~channel[s.t] /\ s.key # NoKey) =>
              \A cb \in CB : Subscribed(s.t, s.key, cb) => FiredOn(s, s.t, cb) >= 1
       /\ (s.op = "stop" /\ isStarted[s.t] /\ ~channel[s.t]) =>
              /\ ~isStarted'[s.t]
              /\ timers'[s.t] = 0 /\ winStorage'[s.t] = 0 /\ winCustom'[s.t] = 0]_vars

\* C17 witness: on a Started transport without a channel, notifyUpdate("a") has called a
\* callback subscribed under "a" alone and another subscribed under '*' alone.
C17_Witness ==
    /\ step.op = "notifyUpdate" /\ step.key = "a"
    /\ isStarted[step.t] /\ ~channel[step.t]
    /\ \E c1, c2 \in CB :
           /\ OnlyUnder(listeners[step.t], "a", c1) /\ FiredOn(step, step.t, c1) = 1
           /\ OnlyUnder(listeners[step.t], Wild, c2) /\ FiredOn(step, step.t, c2) = 1

\* C18: when a fetch of the running activation rejects, loading becomes false and data
\* stays what it was; nothing else of the hook or of the transport changes.
C18_RejectKeepsData ==
    [][(step'.op = "reject" /\ step'.cb[2] = accActive) =>
           /\ loading' = FALSE
           /\ data' = data
           /\ UNCHANGED <<transportVars, listeners, lastSyncTime, hookVars>>]_vars

\* C18 witness: a fetch of the running activation rejected while the hook held the
\* result of an earlier fetch, which it still holds, not loading.
C18_Witness ==
    /\ step.op = "reject" /\ step.cb[2] = accActive
    /\ data # 0 /\ ~loading

\* C19: while the SyncProvider is active and less than 1000 ms (Window) have passed since
\* the last 'sync-time-update' signal it handled, isSyncing is true.
C19_InProgressThroughWindow ==
    (facade[1].active /\ facade[1].signalled /\ now < facade[1].lastSyncTime + Window)
        => facade[1].isSyncing

\* C20: no key of a registry maps to an empty set of callbacks.
C20_NoEmptyBucket ==
    \A t \in TS : \A k \in DOMAIN listeners[t] : listeners[t][k] # <<>>

\* C20 witness: a revocation handle issued before a stop() was called after it, its
\* callback not subscribed since, while the registry holds a later subscription.
C20_Witness ==
    /\ step.op = "revoke"
    /\ step.cb \in gone[step.t]
    /\ DOMAIN listeners[step.t] # {}

\* The keys under which a callback is registered on transport t.
KeysOf(L, cb) == {k \in DOMAIN L : InSeq(L[k], cb)}

\* C21: when a render gives an active hook a watch-key set that differs from the set of
\* the render before, or another transport, the callback of the running activation
\* leaves the registries, a new activation registers its callback under exactly the keys
\* of the new set on the transport of that render, and its fetch starts.
C21_KeyChangeResubscribes ==
    [][LET s == step' IN
       (\/ s.op = "setKeys" /\ Range(watchKeys') # Range(watchKeys)
        \/ s.op = "setTransport")
           => /\ accActive' # accActive
              /\ \A u \in TS : Mine \notin Registered(listeners'[u])
              /\ KeysOf(listeners'[accT'], <<"doFetch", accActive'>>) = Range(watchKeys')
              /\ inflight' = Append(inflight, accActive')]_vars

\* C22: the fetches of one activation are not serialized: once a fetch of the running
\* activation has resolved and none of its fetches is pending any more, data is the
\* result of that fetch, the one that resolved last, whenever it was started.
C22_LastResolvedWins ==
    (/\ step.op = "resolve" /\ accActive # 0 /\ step.cb = Mine
     /\ \A k \in 1..Len(inflight) : inflight[k] # accActive)
        => data = step.ret

\* C22 witness: the fetch of the running activation that resolved last had been started
\* before another one that had resolved already, and its result is the data.
C22_Witness ==
    /\ step.op = "resolve" /\ accActive # 0 /\ step.cb = Mine
    /\ step.stale
    /\ \A k \in 1..Len(inflight) : inflight[k] # accActive
    /\ data = step.ret

\* The place of a callback in the insertion order of a bucket.
Pos(s, x) == CHOOSE i \in 1..Len(s) : s[i] = x

\* C23: a task keeps the callbacks that stay registered under a key in their order and
\* puts a callback it registers behind them, and every dispatch pass calls the callbacks
\* of its key in that order, and after all of them the callbacks of '*' in theirs.
C23_RegistrationOrder ==
    [][/\ \A t \in TS, k \in SubKeys :
            LET old == Bucket(listeners[t], k)
                new == Bucket(listeners'[t], k)
            IN  \A i, j \in 1..Len(new) :
                    (i < j /\ InSeq(old, new[j]))
                        => InSeq(old, new[i]) /\ Pos(old, new[i]) < Pos(old, new[j])
       /\ \A n \in 1..Len(step'.passes) :
            LET p == step'.passes[n]
            IN  p.fired = Bucket(listeners[p.t], p.key)
                              \o (IF p.key # Wild THEN Bucket(listeners[p.t], Wild) ELSE <<>>)]_vars

\* C23 witness: notifyUpdate("a") called the two callbacks registered under "a", the one
\* that was registered first being called first.
C23_Witness ==
    /\ step.op = "notifyUpdate" /\ step.key = "a" /\ isStarted[step.t]
    /\ Len(step.passes) = 1
    /\ step.passes[1].fired = <<<<"cb", 2>>, <<"cb", 1>>>>
    /\ Bucket(listeners[step.t], "a") = <<<<"cb", 2>>, <<"cb", 1>>>>

\* C24: every dispatch pass ends, and it calls no callback more than once, also when a
\* callback of the pass revokes itself and subscribes itself again under the key of the
\* pass while other callbacks are registered under that key.
C24_PassEndsEachOnce ==
    /\ ~step.hung
    /\ \A n \in 1..Len(step.passes) :
           \A cb \in CB \cup AgainCB : Count(step.passes[n].fired, cb) <= 1

\* C25: notifyUpdate(K) or forceSync(K) on a Stopped transport runs no dispatch pass on
\* that transport, so it calls none of its callbacks, those subscribed while it was
\* Stopped included; it sets the transport's last-sync time to the current time, never
\* back, and emits the 'sync-time-update' signal.
C25_StoppedNotifyOnlyStamps ==
    [][LET s == step' IN
       (IsNotify(s) /\ ~isStarted[s.t])
           => /\ PassesOn(s, s.t) = {}
              /\ \A cb \in CB : FiredOn(s, s.t, cb) = 0
              /\ lastSyncTime'[s.t] = now
              /\ lastSyncTime'[s.t] >= lastSyncTime[s.t]
              /\ s.signals >= 1]_vars

\* C25 witness: notifyUpdate("a") on transport A, which is Stopped and holds a callback
\* under "a", subscribed while it was Stopped: no pass ran on A, and its last-sync time
\* moved to now.
C25_Witness ==
    /\ step.op = "notifyUpdate" /\ step.t = "A" /\ step.key = "a"
    /\ ~isStarted["A"] /\ winCustom["A"] = 0
    /\ InSeq(Bucket(listeners["A"], "a"), <<"cb", 1>>)
    /\ PassesOn(step, "A") = {}
    /\ now > 0 /\ lastSyncTime["A"] = now
    /\ step.signals >= 1

\* C26: while at least one of the SyncProviders that wrap transport A is active, A is
\* Started, and the unmount of one provider while the other stays active takes no
\* subscription out of A's registry.
C26_StartedWhileAnyScope ==
    [][(\E p \in Provs : facade'[p].active)
           => /\ isStarted'[ProvT]
              /\ step'.op = "provUnmount" => listeners'[ProvT] = listeners[ProvT]]_vars

====
